---- MODULE Spec2Model ----
(***************************************************************************)
(* K_Spk v2 precedence parser (core/k_spk_v2_precedence_parser.py).        *)
(*                                                                         *)
(* One run of parse_k_spk_expression(expression, rosetta_table): tokenize, *)
(* parse_to_ast (with the token loop of _build_expression_tree taken one   *)
(* token at a time), validate_ast, return.                                 *)
(*                                                                         *)
(* Symbols are single characters.  TLA+ strings are ASCII, so the glyphs   *)
(* of the source are written:                                              *)
(*     "<" for U+27E8 (open delimiter)    ">" for U+27E9 (close delimiter) *)
(*     "+" for U+2295   "*" for U+2297   "o" for U+2299                    *)
(*     "&" for U+2227   "|" for U+2228   "r" for U+2192 (arrow)            *)
(*     "t" for U+29D6 (hourglass)  "m" for U+2666 (diamond)                *)
(*     "h" for U+2B22 (hexagon)    " " for a whitespace character          *)
(*     "X" for a character that is in no table                             *)
(*     "a" for a table symbol of category 'Agent' that is not in the fixed *)
(*     operator set, "c" for a table symbol without a category             *)
(*     "P", "Q" for two table symbols of category operator that carry an   *)
(*     explicit precedence (1 and 5)                                       *)
(* A Python list used as a stack is a sequence whose top is its last       *)
(* element.  An optional value is a sequence of length 0 or 1.             *)
(***************************************************************************)
EXTENDS Integers, Sequences, FiniteSets, TLC

VARIABLES expression, pc, tokens, index, operator_stack, output_stack,
          ast, error, issues

vars == <<expression, pc, tokens, index, operator_stack, output_stack,
          ast, error, issues>>

(***************************************************************************)
(* Bounds of the model.                                                    *)
(***************************************************************************)
\* longest expression over the whole alphabet
MaxLen == 3
\* longest expression over one of the small alphabets
MaxLongLen == 5

\* every character class the tokenizer distinguishes
Alphabet == {"<", ">", "+", "r", "t", "m", "h", "a", "c", "X", " ", "P", "Q"}
\* the whitespace characters of the alphabet
Whitespace == {" "}
\* grouping, operator precedence, operand stacking
LongAlphabets == { {"<", ">", "+", "t", "m"},
                   {"t", "m", "P", "Q", "+"},
                   {"+", "r", "t", "m", "h"} }

Strings(A, n) == UNION { [1..k -> A] : k \in 0..n }

Expressions ==
    Strings(Alphabet, MaxLen) \cup UNION { Strings(A, MaxLongLen) : A \in LongAlphabets }

(***************************************************************************)
(* The strings of the category tests, as character sequences.              *)
(***************************************************************************)
\* the keywords of _classify_symbol
temporal == <<"t", "e", "m", "p", "o", "r", "a", "l">>
time == <<"t", "i", "m", "e">>
modifier == <<"m", "o", "d", "i", "f", "i", "e", "r">>
dimensional == <<"d", "i", "m", "e", "n", "s", "i", "o", "n", "a", "l">>
operator == <<"o", "p", "e", "r", "a", "t", "o", "r">>
logical == <<"l", "o", "g", "i", "c", "a", "l">>
routing == <<"r", "o", "u", "t", "i", "n", "g">>
agent == <<"a", "g", "e", "n", "t">>

\* the category strings of the table
cat_delimiter == <<"d", "e", "l", "i", "m", "i", "t", "e", "r">>
\* 'Agent'
cat_Agent == <<"A", "g", "e", "n", "t">>
\* 'operators'
cat_operators == <<"o", "p", "e", "r", "a", "t", "o", "r", "s">>
\* 'LOGICAL'
cat_LOGICAL == <<"L", "O", "G", "I", "C", "A", "L">>

(***************************************************************************)
(* The symbol table handed to the parser: TEST_ROSETTA of                  *)
(* tests/council_exchanges.py, and four more entries: an agent entry with  *)
(* a capitalised category, an entry without a category, and two operator   *)
(* entries with an explicit precedence whose categories hold the keyword   *)
(* inside a longer or upper-case word.  A string that the code searches or *)
(* lower-cases is the sequence of its characters.                          *)
(***************************************************************************)
rosetta ==
    ("+" :> [meaning |-> "logical_operation", category |-> operator]) @@
    ("t" :> [meaning |-> "temporal_marker",   category |-> temporal]) @@
    ("m" :> [meaning |-> "emotional_context", category |-> modifier]) @@
    ("h" :> [meaning |-> "spatial_dimension", category |-> modifier]) @@
    ("r" :> [meaning |-> "agent_handoff",     category |-> routing]) @@
    ("<" :> [meaning |-> "group_open",        category |-> cat_delimiter]) @@
    (">" :> [meaning |-> "group_close",       category |-> cat_delimiter]) @@
    ("a" :> [meaning |-> "agent_name",        category |-> cat_Agent]) @@
    ("c" :> [meaning |-> "base_symbol"]) @@
    ("P" :> [meaning |-> "tight_operation",   category |-> cat_operators,
             precedence |-> 1]) @@
    ("Q" :> [category |-> cat_LOGICAL, precedence |-> 5])

\* SymbolType
SymbolType == [core |-> "core", modifier |-> "modifier", operator |-> "operator",
               delimiter |-> "delimiter", routing |-> "routing",
               temporal |-> "temporal"]

\* KSpkPrecedenceParser.__init__
precedence_rules == [meta |-> 0, routing |-> 1, temporal |-> 2, spatial |-> 3,
                     logical |-> 4, emotional |-> 5, core |-> 6, modifier |-> 7]

delimiters == ("<" :> "open") @@ (">" :> "close")

operators == {"+", "*", "o", "&", "|", "r"}

\* a tokenizer that takes no character for whitespace
isspace_never(char) == FALSE

\* str.isspace
isspace(char) == char \in Whitespace

\* 'word' in category: word is a substring of category
Contains(word, category) ==
    \E i \in 0..(Len(category) - Len(word)) :
        SubSeq(category, i + 1, i + Len(word)) = word

\* str.lower, on the ASCII letters
UpperCase == <<"A", "B", "C", "D", "E", "F", "G", "H", "I", "J", "K", "L", "M",
               "N", "O", "P", "Q", "R", "S", "T", "U", "V", "W", "X", "Y", "Z">>
LowerCase == <<"a", "b", "c", "d", "e", "f", "g", "h", "i", "j", "k", "l", "m",
               "n", "o", "p", "q", "r", "s", "t", "u", "v", "w", "x", "y", "z">>
lower(str) ==
    [k \in DOMAIN str |->
        IF \E i \in DOMAIN UpperCase : UpperCase[i] = str[k]
            THEN LowerCase[CHOOSE i \in DOMAIN UpperCase : UpperCase[i] = str[k]]
            ELSE str[k]]

\* KSpkToken(symbol, type, precedence, semantic_value, position, metadata);
\* of the metadata only the 'error' entry is ever read
KSpkToken(symbol, type, precedence, semantic_value, position, err) ==
    [symbol |-> symbol, type |-> type, precedence |-> precedence,
     semantic_value |-> semantic_value, position |-> position, error |-> err]

\* KSpkASTNode(token); the parent back-reference is not modelled
KSpkASTNode(token) == [token |-> token, children |-> <<>>]

add_child(node, child) == [node EXCEPT !.children = Append(@, child)]

is_leaf(node) == Len(node.children) = 0

\* KSpkASTNode.depth
RECURSIVE depth(_)
RECURSIVE MaxChildDepth(_, _)
MaxChildDepth(children, k) ==
    IF k > Len(children) THEN 0
    ELSE LET d == depth(children[k])
             rest == MaxChildDepth(children, k + 1)
         IN  IF d > rest THEN d ELSE rest

depth(node) ==
    IF is_leaf(node) THEN 0 ELSE 1 + MaxChildDepth(node.children, 1)

\* sys.getrecursionlimit() of the interpreter that runs the parser: CPython's
\* default and a raised one
RecursionLimits == {1000, 3000}

\* deepest stack of the caller of parse_k_spk_expression
MaxCallerFrames == 100
\* the frames already on the stack when parse_k_spk_expression is called
CallerFrames == 1..MaxCallerFrames

\* the deepest tree root.depth() walks without RecursionError: every level of
\* the tree takes three recursion levels (depth, max and its generator
\* expression); six more go to parse_k_spk_expression, parse_to_ast,
\* _build_expression_tree and the calls at the root and at the last leaf
DepthWalkLimit(limit, frames) == (limit - frames - 6) \div 3

\* str(e) of the RecursionError, which depends on the call that hits the limit
RecursionMessages == { "maximum recursion depth exceeded",
                       "maximum recursion depth exceeded in comparison" }

\* ParseError(message, position = -1, symbol = "")
ParseError(message, position, symbol) ==
    [message |-> message, position |-> position, symbol |-> symbol]

\* str(e) of a ParseError, as the parts that are formatted into it
StrOfError(e) == <<"Parse Error at position ", e.position, e.message, e.symbol>>

(***************************************************************************)
(* Tokenizer                                                               *)
(***************************************************************************)
_classify_symbol(symbol_data) ==
    LET category == lower(IF "category" \in DOMAIN symbol_data
                              THEN symbol_data.category ELSE << >>) IN
    IF Contains(temporal, category) \/ Contains(time, category)
        THEN SymbolType.temporal
    ELSE IF Contains(modifier, category) \/ Contains(dimensional, category)
        THEN SymbolType.modifier
    ELSE IF Contains(operator, category) \/ Contains(logical, category)
        THEN SymbolType.operator
    ELSE IF Contains(routing, category) \/ Contains(agent, category)
        THEN SymbolType.routing
    ELSE SymbolType.core

_get_precedence(symbol_data, symbol_type) ==
    IF "precedence" \in DOMAIN symbol_data
        THEN symbol_data.precedence
    ELSE IF symbol_type = SymbolType.delimiter THEN precedence_rules.meta
    ELSE IF symbol_type = SymbolType.routing   THEN precedence_rules.routing
    ELSE IF symbol_type = SymbolType.temporal  THEN precedence_rules.temporal
    ELSE IF symbol_type = SymbolType.operator  THEN precedence_rules.logical
    ELSE IF symbol_type = SymbolType.core      THEN precedence_rules.core
    ELSE precedence_rules.modifier

\* the outcome of _create_token: <<token>>, or <<>> when it raises KeyError
_create_token(symbol, position) ==
    IF symbol \in DOMAIN delimiters
        THEN << KSpkToken(symbol, SymbolType.delimiter, precedence_rules.meta,
                          <<"delimiter_", delimiters[symbol]>>, position, FALSE) >>
    ELSE IF symbol \in operators
        THEN << KSpkToken(symbol, SymbolType.operator, precedence_rules.logical,
                          <<"operator_", symbol>>, position, FALSE) >>
    ELSE IF symbol \in DOMAIN rosetta
        THEN LET symbol_data == rosetta[symbol]
                 symbol_type == _classify_symbol(symbol_data)
             IN  << KSpkToken(symbol, symbol_type,
                              _get_precedence(symbol_data, symbol_type),
                              <<IF "meaning" \in DOMAIN symbol_data
                                    THEN symbol_data.meaning ELSE symbol>>,
                              position, FALSE) >>
    ELSE << >>

\* the token tokenize appends for the character at the given position
TokenAt(char, position) ==
    LET created == _create_token(char, position) IN
    IF created # << >>
        THEN created[1]
        ELSE KSpkToken(char, SymbolType.core, 10, <<"UNKNOWN_SYMBOL:", char>>,
                       position, TRUE)

RECURSIVE TokenizeFrom(_, _)
TokenizeFrom(k_spk_sequence, k) ==
    IF k > Len(k_spk_sequence) THEN << >>
    ELSE IF isspace(k_spk_sequence[k]) THEN TokenizeFrom(k_spk_sequence, k + 1)
    ELSE <<TokenAt(k_spk_sequence[k], k - 1)>> \o TokenizeFrom(k_spk_sequence, k + 1)

tokenize(k_spk_sequence) ==
    IF \A k \in DOMAIN k_spk_sequence : isspace(k_spk_sequence[k])
        THEN << >>
        ELSE TokenizeFrom(k_spk_sequence, 1)

(***************************************************************************)
(* AST builder                                                             *)
(***************************************************************************)
Top(stack) == stack[Len(stack)]
Pop(stack) == SubSeq(stack, 1, Len(stack) - 1)

\* _pop_operator_to_output attaching the two operands in the order they are
\* popped: the right one first
_pop_operator_to_output_right_first(ops, out) ==
    IF ops = << >> THEN [ops |-> ops, out |-> out]
    ELSE
    LET operator_token == Top(ops)
        operator_node  == KSpkASTNode(operator_token)
        n              == Len(out)
    IN  IF operator_token.type = SymbolType.operator /\ n >= 2
            THEN [ops |-> Pop(ops),
                  out |-> Append(SubSeq(out, 1, n - 2),
                                 add_child(add_child(operator_node, out[n]), out[n - 1]))]
        ELSE IF operator_token.type = SymbolType.operator /\ n = 1
            THEN [ops |-> Pop(ops),
                  out |-> <<add_child(operator_node, out[n])>>]
        ELSE [ops |-> Pop(ops), out |-> Append(out, operator_node)]

\* the two stacks after _pop_operator_to_output
_pop_operator_to_output(ops, out) ==
    IF ops = << >> THEN [ops |-> ops, out |-> out]
    ELSE
    LET operator_token == Top(ops)
        operator_node  == KSpkASTNode(operator_token)
        n              == Len(out)
    IN  IF operator_token.type = SymbolType.operator /\ n >= 2
            THEN [ops |-> Pop(ops),
                  out |-> Append(SubSeq(out, 1, n - 2),
                                 add_child(add_child(operator_node, out[n - 1]), out[n]))]
        ELSE IF operator_token.type = SymbolType.operator /\ n = 1
            THEN [ops |-> Pop(ops),
                  out |-> <<add_child(operator_node, out[n])>>]
        ELSE [ops |-> Pop(ops), out |-> Append(out, operator_node)]

\* while operator_stack and operator_stack[-1].symbol != open: pop
RECURSIVE PopUntilOpen(_, _)
PopUntilOpen(ops, out) ==
    IF ops # << >> /\ Top(ops).symbol # "<"
        THEN LET s == _pop_operator_to_output(ops, out) IN PopUntilOpen(s.ops, s.out)
        ELSE [ops |-> ops, out |-> out]

\* the loop condition with a strict comparison of the precedences
PopsBeforeStrict(top, token) == top.symbol # "<" /\ top.precedence < token.precedence

\* the loop condition of the operator branch
PopsBefore(top, token) == top.symbol # "<" /\ top.precedence <= token.precedence

RECURSIVE PopWhilePrecedence(_, _, _)
PopWhilePrecedence(ops, out, token) ==
    IF ops # << >> /\ PopsBefore(Top(ops), token)
        THEN LET s == _pop_operator_to_output(ops, out)
             IN  PopWhilePrecedence(s.ops, s.out, token)
        ELSE [ops |-> ops, out |-> out]

\* "Pop remaining operators": the stacks when the loop ends or raises, and
\* whether it raised on an open delimiter
RECURSIVE PopRemaining(_, _)
PopRemaining(ops, out) ==
    IF ops = << >> THEN [ops |-> ops, out |-> out, raised |-> FALSE]
    ELSE IF Top(ops).symbol = "<" THEN [ops |-> ops, out |-> out, raised |-> TRUE]
    ELSE LET s == _pop_operator_to_output(ops, out) IN PopRemaining(s.ops, s.out)

\* parse_to_ast's "except Exception as e: raise ParseError(...)"
Wrapped(e) == ParseError(<<"Failed to build AST: ", StrOfError(e)>>, -1, "")

(***************************************************************************)
(* Validator                                                               *)
(***************************************************************************)
RECURSIVE validate_ast(_)
RECURSIVE ValidateChildren(_, _)
ValidateChildren(children, k) ==
    IF k > Len(children) THEN << >>
    ELSE validate_ast(children[k]) \o ValidateChildren(children, k + 1)

\* a validator that looks at the root and does not descend
validate_ast_root_only(root) ==
    IF root.token.error THEN << <<"Error token in AST: ", root.token.symbol>> >>
                        ELSE << >>

validate_ast(root) ==
    (IF root.token.error THEN << <<"Error token in AST: ", root.token.symbol>> >>
                         ELSE << >>)
    \o ValidateChildren(root.children, 1)

(***************************************************************************)
(* Token list for the layer system (k_spk_demo.py): the tokens of the tree *)
(* in pre-order, a node before its children.                               *)
(***************************************************************************)
RECURSIVE flatten_ast_tokens(_)
RECURSIVE FlattenChildren(_, _)
FlattenChildren(children, k) ==
    IF k > Len(children) THEN << >>
    ELSE flatten_ast_tokens(children[k]) \o FlattenChildren(children, k + 1)

flatten_ast_tokens(node) ==
    <<node.token>> \o FlattenChildren(node.children, 1)

(***************************************************************************)
(* parse_k_spk_expression as a state machine                               *)
(***************************************************************************)
Init ==
    /\ expression \in Expressions
    /\ pc = "tokenize"
    /\ tokens = << >>
    /\ index = 1
    /\ operator_stack = << >>
    /\ output_stack = << >>
    /\ ast = << >>
    /\ error = << >>
    /\ issues = << >>

\* tokens = parser.tokenize(expression)
Tokenize ==
    /\ pc = "tokenize"
    /\ tokens' = tokenize(expression)
    /\ pc' = "parse"
    /\ UNCHANGED <<expression, index, operator_stack, output_stack, ast, error, issues>>

\* parse_to_ast: "if not tokens: raise ParseError"
ParseEmpty ==
    /\ pc = "parse"
    /\ tokens = << >>
    /\ error' = << ParseError(<<"Cannot parse empty token list">>, -1, "") >>
    /\ pc' = "raised"
    /\ UNCHANGED <<expression, tokens, index, operator_stack, output_stack, ast, issues>>

\* parse_to_ast without its single-token case: one token goes to the builder
ParseSingleThroughBuilder ==
    /\ pc = "parse"
    /\ Len(tokens) = 1
    /\ index' = 1
    /\ operator_stack' = << >>
    /\ output_stack' = << >>
    /\ pc' = "build"
    /\ UNCHANGED <<expression, tokens, ast, error, issues>>

\* parse_to_ast: "if len(tokens) == 1: return KSpkASTNode(tokens[0])"
ParseSingle ==
    /\ pc = "parse"
    /\ Len(tokens) = 1
    /\ ast' = << KSpkASTNode(tokens[1]) >>
    /\ pc' = "validate"
    /\ UNCHANGED <<expression, tokens, index, operator_stack, output_stack, error, issues>>

\* parse_to_ast enters _build_expression_tree with two empty stacks
BeginBuild ==
    /\ pc = "parse"
    /\ Len(tokens) >= 2
    /\ index' = 1
    /\ operator_stack' = << >>
    /\ output_stack' = << >>
    /\ pc' = "build"
    /\ UNCHANGED <<expression, tokens, ast, error, issues>>

InLoop == pc = "build" /\ index <= Len(tokens)

\* token loop: open delimiter
OpenDelimiter ==
    /\ InLoop
    /\ tokens[index].type = SymbolType.delimiter
    /\ tokens[index].symbol = "<"
    /\ operator_stack' = Append(operator_stack, tokens[index])
    /\ index' = index + 1
    /\ UNCHANGED <<expression, pc, tokens, output_stack, ast, error, issues>>

\* token loop: close delimiter
CloseDelimiter ==
    /\ InLoop
    /\ tokens[index].type = SymbolType.delimiter
    /\ tokens[index].symbol = ">"
    /\ LET s == PopUntilOpen(operator_stack, output_stack) IN
       IF s.ops = << >>
           THEN /\ error' = << Wrapped(ParseError(<<"Mismatched closing delimiter">>,
                                                  tokens[index].position,
                                                  tokens[index].symbol)) >>
                /\ pc' = "raised"
                /\ operator_stack' = s.ops
                /\ output_stack' = s.out
                /\ UNCHANGED index
           ELSE /\ operator_stack' = Pop(s.ops)
                /\ output_stack' = s.out
                /\ index' = index + 1
                /\ UNCHANGED <<pc, error>>
    /\ UNCHANGED <<expression, tokens, ast, issues>>

\* token loop: operator
OperatorToken ==
    /\ InLoop
    /\ tokens[index].type = SymbolType.operator
    /\ LET s == PopWhilePrecedence(operator_stack, output_stack, tokens[index]) IN
       /\ operator_stack' = Append(s.ops, tokens[index])
       /\ output_stack' = s.out
    /\ index' = index + 1
    /\ UNCHANGED <<expression, pc, tokens, ast, error, issues>>

\* token loop: any other token is an operand
OperandToken ==
    /\ InLoop
    /\ tokens[index].type \notin {SymbolType.delimiter, SymbolType.operator}
    /\ output_stack' = Append(output_stack, KSpkASTNode(tokens[index]))
    /\ index' = index + 1
    /\ UNCHANGED <<expression, pc, tokens, operator_stack, ast, error, issues>>

\* after the loop: pop the remaining operators, check for one root, log its
\* depth, return
FinishBuild ==
    /\ pc = "build"
    /\ index > Len(tokens)
    /\ LET s == PopRemaining(operator_stack, output_stack) IN
       /\ operator_stack' = s.ops
       /\ output_stack' = s.out
       /\ IF s.raised
              THEN /\ error' = << Wrapped(ParseError(<<"Mismatched opening delimiter">>,
                                                     -1, "")) >>
                   /\ pc' = "raised"
                   /\ UNCHANGED ast
          ELSE IF Len(s.out) # 1
              THEN /\ error' = << Wrapped(ParseError(
                                     <<"Invalid expression structure: ", Len(s.out),
                                       " root nodes">>, -1, "")) >>
                   /\ pc' = "raised"
                   /\ UNCHANGED ast
          ELSE \* root.depth() in the debug message runs under the recursion
               \* limit and the stack of the caller; a RecursionError is
               \* wrapped by parse_to_ast like any other exception
               \E overflow \in { depth(s.out[1]) > DepthWalkLimit(limit, frames) :
                                    limit \in RecursionLimits, frames \in CallerFrames } :
                   IF overflow
                       THEN /\ \E msg \in RecursionMessages :
                                  error' = << ParseError(<<"Failed to build AST: ",
                                                           <<msg>>>>, -1, "") >>
                            /\ pc' = "raised"
                            /\ UNCHANGED ast
                   ELSE /\ ast' = << s.out[1] >>
                        /\ pc' = "validate"
                        /\ UNCHANGED error
    /\ UNCHANGED <<expression, tokens, index, issues>>

\* issues = parser.validate_ast(ast); return ast
Validate ==
    /\ pc = "validate"
    /\ issues' = validate_ast(ast[1])
    /\ pc' = "returned"
    /\ UNCHANGED <<expression, tokens, index, operator_stack, output_stack, ast, error>>

Next ==
    \/ Tokenize
    \/ ParseEmpty
    \/ ParseSingle
    \/ BeginBuild
    \/ OpenDelimiter
    \/ CloseDelimiter
    \/ OperatorToken
    \/ OperandToken
    \/ FinishBuild
    \/ Validate

Spec == Init /\ [][Next]_vars

(***************************************************************************)
(* Vocabulary of the properties                                            *)
(***************************************************************************)
\* the call has returned a tree (held in ast) / has raised (held in error)
Returned == pc \in {"validate", "returned"}
Raised == pc = "raised"

Sym(node) == node.token.symbol

\* every node of a tree
RECURSIVE Nodes(_)
Nodes(node) ==
    {node} \cup UNION { Nodes(node.children[k]) : k \in DOMAIN node.children }

\* the characters of a string that are not whitespace, in order
NonSpace(str) == SelectSeq(str, LAMBDA ch : ch \notin Whitespace)

\* a character that is no delimiter, in no operator set and in no table
IsUnknown(ch) ==
    /\ ch \notin Whitespace
    /\ ch \notin DOMAIN delimiters
    /\ ch \notin operators
    /\ ch \notin DOMAIN rosetta

\* some close delimiter has no earlier open one, or some open one is never
\* closed: the nesting depth falls below zero or does not end at zero
RECURSIVE Unbalanced(_, _, _)
Unbalanced(toks, k, nesting) ==
    IF k > Len(toks) THEN nesting # 0
    ELSE IF toks[k].symbol = "<" THEN Unbalanced(toks, k + 1, nesting + 1)
    ELSE IF toks[k].symbol = ">"
        THEN nesting = 0 \/ Unbalanced(toks, k + 1, nesting - 1)
    ELSE Unbalanced(toks, k + 1, nesting)

\* the error that reached the caller is one of the two delimiter errors
MismatchedDelimiter ==
    /\ Raised
    /\ error[1].message[1] = "Failed to build AST: "
    /\ Len(error[1].message[2]) = 4
    /\ error[1].message[2][3][1] \in {"Mismatched closing delimiter",
                                      "Mismatched opening delimiter"}

EmptyInput ==
    /\ Raised
    /\ error[1].message[1] = "Cannot parse empty token list"

(***************************************************************************)
(* C1  With the test table, the grouped expression "<+t>m" parses without  *)
(* error to a tree whose root is the modifier m and which has a child that *)
(* is the + node with the single child t.                                  *)
(***************************************************************************)
C1_GroupedExpressionParses ==
    expression = <<"<", "+", "t", ">", "m">> =>
        /\ ~Raised
        /\ Returned =>
              /\ Sym(ast[1]) = "m"
              /\ \E k \in DOMAIN ast[1].children :
                    /\ Sym(ast[1].children[k]) = "+"
                    /\ Len(ast[1].children[k].children) = 1
                    /\ Sym(ast[1].children[k].children[1]) = "t"

(***************************************************************************)
(* C2  For "r+t" the arrow r is tokenized as a routing token of precedence *)
(* 1, and the returned tree has the arrow at its root.                     *)
(***************************************************************************)
C2_AgentHandoffRoot ==
    expression = <<"r", "+", "t">> =>
        /\ pc # "tokenize" =>
              /\ tokens[1].type = SymbolType.routing
              /\ tokens[1].precedence = 1
        /\ ~Raised
        /\ Returned => Sym(ast[1]) = "r"

(***************************************************************************)
(* C3  The council expression "+tmh" (operator, temporal, modifier,        *)
(* modifier) parses to a single tree: the call never raises.               *)
(***************************************************************************)
C3_ComplexStackingParses ==
    expression = <<"+", "t", "m", "h">> => ~Raised

(***************************************************************************)
(* C4  Every non-empty token sequence, of any length, with an unmatched    *)
(* close delimiter or an unclosed open delimiter ends in the mismatched    *)
(* delimiter error and returns no tree.                                    *)
(***************************************************************************)
C4_UnbalancedAlwaysFails ==
    (pc \notin {"tokenize", "parse", "build"} /\ tokens # << >>
        /\ Unbalanced(tokens, 1, 0))
    => (MismatchedDelimiter /\ ast = << >>)

\* the same for the sequences that reach _build_expression_tree
UnbalancedFailsFromTwoTokens ==
    (pc \notin {"tokenize", "parse", "build"} /\ Len(tokens) >= 2
        /\ Unbalanced(tokens, 1, 0))
    => (MismatchedDelimiter /\ ast = << >>)

(***************************************************************************)
(* C5  An unknown character never aborts tokenize: every non-whitespace    *)
(* character yields one token, in order, and exactly the unknown ones      *)
(* yield a Core token carrying the error marker.  "+X+" and "+Xt" parse to *)
(* completion with exactly one validation issue, the one for X; whenever   *)
(* the call returns, there are as many issues as unknown characters.       *)
(***************************************************************************)
C5_UnknownSymbolRecovered ==
    /\ pc # "tokenize" =>
          LET chars == NonSpace(expression) IN
          /\ Len(tokens) = Len(chars)
          /\ \A k \in DOMAIN chars :
                /\ tokens[k].symbol = chars[k]
                /\ tokens[k].error = IsUnknown(chars[k])
                /\ IsUnknown(chars[k]) => tokens[k].type = SymbolType.core
    /\ expression \in { <<"+", "X", "+">>, <<"+", "X", "t">> } =>
          /\ ~Raised
          /\ pc = "returned" => issues = << <<"Error token in AST: ", "X">> >>
    /\ pc = "returned" =>
          Len(issues) = Len(SelectSeq(expression, IsUnknown))

C5_Witness ==
    /\ expression = <<"+", "X", "+">>
    /\ pc = "returned"
    /\ Len(issues) = 1

(***************************************************************************)
(* C6  For an expression of whitespace only (the empty one included)       *)
(* tokenize returns no token, and parse_to_ast then raises the empty-input *)
(* ParseError instead of returning a tree.                                 *)
(***************************************************************************)
C6_WhitespaceIsEmptyInput ==
    (\A k \in DOMAIN expression : expression[k] \in Whitespace) =>
        /\ pc # "tokenize" => tokens = << >>
        /\ ~Returned /\ pc # "build" /\ ast = << >>
        /\ pc \notin {"tokenize", "parse"} => EmptyInput

C6_Witness ==
    /\ expression = <<" ", " ">>
    /\ tokens = << >>
    /\ EmptyInput

(***************************************************************************)
(* C7  An expression with exactly one non-whitespace symbol, whatever its  *)
(* classification, parses to a tree of one childless node whose token      *)
(* symbol is that character; the call never raises.                        *)
(***************************************************************************)
C7_SingleSymbolIsLeaf ==
    Len(NonSpace(expression)) = 1 =>
        /\ ~Raised /\ pc # "build"
        /\ pc \notin {"tokenize", "parse"} =>
              /\ Returned
              /\ is_leaf(ast[1])
              /\ Sym(ast[1]) = NonSpace(expression)[1]

C7_Witness ==
    /\ expression = <<" ", "<">>
    /\ pc = "returned"
    /\ is_leaf(ast[1])
    /\ ast[1].token.type = SymbolType.delimiter

(***************************************************************************)
(* C8  No returned tree, for any token sequence, has a node that carries a *)
(* delimiter token; in particular "<", A, ">" with an operand A parses to  *)
(* a tree without delimiter nodes.                                         *)
(***************************************************************************)
C8_NoDelimiterNodes ==
    /\ Returned =>
          \A node \in Nodes(ast[1]) : node.token.type # SymbolType.delimiter
    /\ (/\ Len(tokens) = 3
        /\ tokens[1].symbol = "<"
        /\ tokens[2].type \notin {SymbolType.delimiter, SymbolType.operator}
        /\ tokens[3].symbol = ">") => ~Raised

\* the same for the sequences that reach _build_expression_tree
NoDelimiterNodesFromTwoTokens ==
    (Returned /\ Len(tokens) >= 2) =>
        \A node \in Nodes(ast[1]) : node.token.type # SymbolType.delimiter

(***************************************************************************)
(* C9  In every returned tree each node is a leaf wrapping a non-operator  *)
(* token, or wraps an operator or routing token and has exactly one or     *)
(* exactly two children.                                                   *)
(***************************************************************************)
C9_NodeArity ==
    Returned =>
        \A node \in Nodes(ast[1]) :
            \/ /\ is_leaf(node)
               /\ node.token.type # SymbolType.operator
            \/ /\ node.token.type \in {SymbolType.operator, SymbolType.routing}
               /\ Len(node.children) \in {1, 2}

\* what does hold of every returned tree
NodeArityAtMostTwo ==
    Returned =>
        \A node \in Nodes(ast[1]) :
            /\ Len(node.children) <= 2
            /\ ~is_leaf(node) => node.token.type = SymbolType.operator

(***************************************************************************)
(* C10  When an operator token has been processed it is the top of the     *)
(* operator stack, and what lies directly below it is an open delimiter or *)
(* an operator of a greater precedence number: everything of a lower or    *)
(* equal number has been popped and reduced.  So for operands a, b, c and  *)
(* operators P, Q with precedence(P) < precedence(Q), "a Q b P c" parses   *)
(* to Q[a, P[b, c]] and "a P b Q c" to Q[P[a, b], c], and operators of     *)
(* equal precedence associate to the left.                                 *)
(***************************************************************************)
Leaf(token) == [token |-> token, children |-> << >>]
Bin(token, left, right) == [token |-> token, children |-> <<left, right>>]
IsOperand(token) == token.type \notin {SymbolType.delimiter, SymbolType.operator}

C10_PrecedenceOrdering ==
    /\ (pc = "build" /\ index > 1 /\ tokens[index - 1].type = SymbolType.operator) =>
          LET n == Len(operator_stack) IN
          /\ n >= 1
          /\ operator_stack[n] = tokens[index - 1]
          /\ n >= 2 => \/ operator_stack[n - 1].symbol = "<"
                       \/ operator_stack[n - 1].precedence > tokens[index - 1].precedence
    /\ (/\ Len(tokens) = 5
        /\ IsOperand(tokens[1]) /\ IsOperand(tokens[3]) /\ IsOperand(tokens[5])
        /\ tokens[2].type = SymbolType.operator
        /\ tokens[4].type = SymbolType.operator) =>
          /\ ~Raised
          /\ Returned =>
                IF tokens[4].precedence < tokens[2].precedence
                    THEN ast[1] = Bin(tokens[2], Leaf(tokens[1]),
                                      Bin(tokens[4], Leaf(tokens[3]), Leaf(tokens[5])))
                    ELSE ast[1] = Bin(tokens[4],
                                      Bin(tokens[2], Leaf(tokens[1]), Leaf(tokens[3])),
                                      Leaf(tokens[5]))

C10_Witness ==
    /\ expression = <<"m", "Q", "t", "P", "m">>
    /\ pc = "returned"
    /\ Sym(ast[1]) = "Q"
    /\ Sym(ast[1].children[1]) = "m"
    /\ Sym(ast[1].children[2]) = "P"

(***************************************************************************)
(* C11  When parse_to_ast fails because a close delimiter has no matching  *)
(* open delimiter, the ParseError that reaches the caller carries that     *)
(* delimiter's symbol and its source position: the position is the token's *)
(* offset, not -1, and the symbol is not empty.                            *)
(***************************************************************************)
\* the call failed on a close delimiter without an open one; the builder
\* stopped at the offending token, tokens[index]
FailedOnClosingDelimiter ==
    /\ Raised
    /\ error[1].message[1] = "Failed to build AST: "
    /\ Len(error[1].message[2]) = 4
    /\ error[1].message[2][3][1] = "Mismatched closing delimiter"

C11_ClosingErrorCarriesToken ==
    FailedOnClosingDelimiter =>
        /\ error[1].symbol = tokens[index].symbol
        /\ error[1].symbol # ""
        /\ error[1].position = tokens[index].position
        /\ error[1].position # -1

\* what the caller does get: the defaults in the attributes, the token's
\* position and symbol only inside the message text
ClosingErrorTokenOnlyInMessage ==
    FailedOnClosingDelimiter =>
        /\ error[1].symbol = ""
        /\ error[1].position = -1
        /\ tokens[index].symbol = ">"
        /\ error[1].message[2][2] = tokens[index].position
        /\ error[1].message[2][4] = tokens[index].symbol

(***************************************************************************)
(* C12  Token conservation: whenever parse_to_ast returns a tree for two   *)
(* or more tokens, the pre-order token list of the tree holds every input  *)
(* token that is not a delimiter exactly once and nothing else, and the    *)
(* operand tokens stand in it in their source order.                       *)
(***************************************************************************)
NotDelimiter(token) == token.type # SymbolType.delimiter

C12_TokenConservation ==
    (Returned /\ Len(tokens) >= 2) =>
        LET flat == flatten_ast_tokens(ast[1])
            kept == SelectSeq(tokens, NotDelimiter)
        IN  /\ Len(flat) = Len(kept)
            /\ \A k \in DOMAIN kept :
                  Cardinality({ j \in DOMAIN flat : flat[j] = kept[k] }) = 1
            /\ \A j \in DOMAIN flat : \E k \in DOMAIN kept : kept[k] = flat[j]
            /\ SelectSeq(flat, IsOperand) = SelectSeq(tokens, IsOperand)

C12_Witness ==
    /\ expression = <<"<", "t", "+", "m", ">">>
    /\ pc = "returned"
    /\ flatten_ast_tokens(ast[1]) = <<tokens[3], tokens[2], tokens[4]>>

====
